---- MODULE Spec2Model ----
(***************************************************************************)
(* TextToSpeech: a facade over the Web Speech API.  Each TextToSpeech      *)
(* instance owns one SpeechSynthesisUtterance; the engine                  *)
(* (window.speechSynthesis) is one process-wide object shared by every     *)
(* instance.                                                               *)
(*                                                                         *)
(* Numbers are modelled by integers: clamp only compares and selects, so   *)
(* the order of the values is all it reads.  The numeric inputs are finite *)
(* numbers (spec 4.1: clamp is total over the finite reals; anything that  *)
(* is not a number is outside the caller's contract).                      *)
(* Strings that the code inspects (language tags, the filter) are          *)
(* sequences of one-character strings, so that String.includes is a real   *)
(* substring search.                                                       *)
(***************************************************************************)
EXTENDS Integers, Sequences, FiniteSets, TLC

VARIABLES
    utterance,   \* facade instance -> its SpeechSynthesisUtterance (fields and on<kind> handlers)
    voices,      \* engine: the voice catalog, speechSynthesis.getVoices()
    listeners,   \* engine: the "voiceschanged" listeners added with addEventListener, in order
    queue,       \* engine: the utterances submitted with speechSynthesis.speak, oldest first
    started,     \* engine: the head of the queue has begun being spoken
    paused,      \* engine: speechSynthesis.paused
    suspended,   \* engine: the rendering of the head utterance is suspended (pause was delivered)
    halted,      \* engine: utterances removed by cancel() whose final event is still to be raised
    last,        \* the last call or engine step: [op, self, arg, ret]
    invoked      \* the caller callbacks invoked during the last step, in order: [callback, arg]

vars == <<utterance, voices, listeners, queue, started, paused, suspended, halted, last, invoked>>

engineVars == <<voices, listeners, queue, started, paused, suspended, halted>>

----------------------------------------------------------------------------
(* Values *)

NULL == "null"

UNDEFINED == "undefined"

\* The most speak() submissions the engine's queue holds in the model.
MaxQueue == 2

\* The most voiceschanged listeners registered in the model.
MaxListeners == 2

\* Numeric arguments range over -MaxNum..MaxNum and two far values.
MaxNum == 4

Numbers == (-MaxNum .. MaxNum) \cup {-5, 10, 11, 99}

EN_US == <<"e", "n", "-", "U", "S">>

EN_GB == <<"e", "n", "-", "G", "B">>

FR_FR == <<"f", "r", "-", "F", "R">>

FR_UPPER == <<"F", "R", "E", "N">>

\* A SpeechSynthesisVoice, as far as the facade reads it: a name and a language tag.
Voice(name, lang) == [name |-> name, lang |-> lang]

\* utterance.voice before any setVoiceSpeech call.
NoVoice == Voice(NULL, <<>>)

AllVoices == {Voice("alice", EN_US), Voice("bob", EN_GB), Voice("chloe", FR_FR), Voice("dan", FR_UPPER)}

\* The caller's callbacks.
Handlers == {"h1", "h2"}

\* The event handler attributes of a SpeechSynthesisUtterance.
Kinds == {"onboundary", "onend", "onerror", "onmark", "onpause", "onresume", "onstart"}

Facades == DOMAIN utterance

----------------------------------------------------------------------------
(* The facade: TextToSpeech *)

Max(a, b) == IF a >= b THEN a ELSE b

Min(a, b) == IF a <= b THEN a ELSE b

clamp_noUpper(min, value, max) == Max(value, min)

clamp_swapped(min, value, max) == Max(Min(value, min), max)

clamp_upperFirst(min, value, max) == Max(Min(value, max), min)

\* clamp: Math.min(Math.max(value, min), max)
clamp(min, value, max) ==
    LET minClampedValue == Max(value, min)
        fullyClampedValue == Min(minClampedValue, max)
    IN  fullyClampedValue

\* new SpeechSynthesisUtterance(): a new object, with the platform's defaults. `id` is
\* the object's identity; the constructor's object is named after the facade
\* constructing it.
NewUtterance(id) ==
    [id |-> id, rate |-> 1, pitch |-> 1, volume |-> 1, lang |-> <<>>, voice |-> NoVoice, text |-> "",
     onboundary |-> NULL, onend |-> NULL, onerror |-> NULL, onmark |-> NULL,
     onpause |-> NULL, onresume |-> NULL, onstart |-> NULL]

\* What a call leaves in the trace: the operation, its receiver, its argument, its result.
Call(op, this, arg, ret) == [op |-> op, self |-> this, arg |-> arg, ret |-> ret]

\* A call of the private method clamp, as the three numeric setters make it.
callClamp(this, min, value, max) ==
    /\ last' = Call("clamp", this, <<min, value, max>>, clamp(min, value, max))
    /\ invoked' = <<>>
    /\ UNCHANGED <<utterance, engineVars>>

setVoiceRate(this, rate) ==
    /\ utterance' = [utterance EXCEPT ![this].rate = clamp(0, rate, 10)]
    /\ last' = Call("setVoiceRate", this, rate, this)
    /\ invoked' = <<>>
    /\ UNCHANGED engineVars

setVoicePitch(this, pitch) ==
    /\ utterance' = [utterance EXCEPT ![this].pitch = clamp(0, pitch, 3)]
    /\ last' = Call("setVoicePitch", this, pitch, this)
    /\ invoked' = <<>>
    /\ UNCHANGED engineVars

setVolume(this, volumeLevel) ==
    /\ utterance' = [utterance EXCEPT ![this].volume = clamp(0, volumeLevel, 1)]
    /\ last' = Call("setVolume", this, volumeLevel, this)
    /\ invoked' = <<>>
    /\ UNCHANGED engineVars

\* A language setter writing to a configuration every facade shares.
setLanguage_shared(this, language) ==
    /\ utterance' = [f \in Facades |-> [utterance[f] EXCEPT !.lang = language]]
    /\ last' = Call("setLanguage", this, language, this)
    /\ invoked' = <<>>
    /\ UNCHANGED engineVars

setLanguage(this, languageCode) ==
    /\ utterance' = [utterance EXCEPT ![this].lang = languageCode]
    /\ last' = Call("setLanguage", this, languageCode, this)
    /\ invoked' = <<>>
    /\ UNCHANGED engineVars

\* A voice setter that also takes the language from the voice.
setVoiceSpeech_alsoLang(this, voiceObject) ==
    /\ utterance' = [utterance EXCEPT ![this].voice = voiceObject, ![this].lang = voiceObject.lang]
    /\ last' = Call("setVoiceSpeech", this, voiceObject, this)
    /\ invoked' = <<>>
    /\ UNCHANGED engineVars

setVoiceSpeech(this, voiceObject) ==
    /\ utterance' = [utterance EXCEPT ![this].voice = voiceObject]
    /\ last' = Call("setVoiceSpeech", this, voiceObject, this)
    /\ invoked' = <<>>
    /\ UNCHANGED engineVars

\* A text setter without its return statement.
\* A text setter that makes a new utterance object for the text.
setVoiceText_replace(this, utteranceText) ==
    /\ utterance' = [utterance EXCEPT ![this] = [NewUtterance("fresh") EXCEPT !.text = utteranceText]]
    /\ last' = Call("setVoiceText", this, utteranceText, this)
    /\ invoked' = <<>>
    /\ UNCHANGED engineVars

setVoiceText_void(this, utteranceText) ==
    /\ utterance' = [utterance EXCEPT ![this].text = utteranceText]
    /\ last' = Call("setVoiceText", this, utteranceText, UNDEFINED)
    /\ invoked' = <<>>
    /\ UNCHANGED engineVars

setVoiceText(this, utteranceText) ==
    /\ utterance' = [utterance EXCEPT ![this].text = utteranceText]
    /\ last' = Call("setVoiceText", this, utteranceText, this)
    /\ invoked' = <<>>
    /\ UNCHANGED engineVars

\* The utterance handler registrations: each assigns one on<kind> attribute.
setOnBoundary(this, handler) ==
    /\ utterance' = [utterance EXCEPT ![this].onboundary = handler]
    /\ last' = Call("setOnBoundary", this, handler, this)
    /\ invoked' = <<>>
    /\ UNCHANGED engineVars

\* A registration for end that assigns the error attribute.
setOnEnd_asError(this, handler) ==
    /\ utterance' = [utterance EXCEPT ![this].onerror = handler]
    /\ last' = Call("setOnEnd", this, handler, this)
    /\ invoked' = <<>>
    /\ UNCHANGED engineVars

setOnEnd(this, handler) ==
    /\ utterance' = [utterance EXCEPT ![this].onend = handler]
    /\ last' = Call("setOnEnd", this, handler, this)
    /\ invoked' = <<>>
    /\ UNCHANGED engineVars

\* A registration for error that assigns the end attribute.
setOnError_asEnd(this, handler) ==
    /\ utterance' = [utterance EXCEPT ![this].onend = handler]
    /\ last' = Call("setOnError", this, handler, this)
    /\ invoked' = <<>>
    /\ UNCHANGED engineVars

setOnError(this, handler) ==
    /\ utterance' = [utterance EXCEPT ![this].onerror = handler]
    /\ last' = Call("setOnError", this, handler, this)
    /\ invoked' = <<>>
    /\ UNCHANGED engineVars

setOnMark(this, handler) ==
    /\ utterance' = [utterance EXCEPT ![this].onmark = handler]
    /\ last' = Call("setOnMark", this, handler, this)
    /\ invoked' = <<>>
    /\ UNCHANGED engineVars

setOnPause(this, handler) ==
    /\ utterance' = [utterance EXCEPT ![this].onpause = handler]
    /\ last' = Call("setOnPause", this, handler, this)
    /\ invoked' = <<>>
    /\ UNCHANGED engineVars

setOnResume(this, handler) ==
    /\ utterance' = [utterance EXCEPT ![this].onresume = handler]
    /\ last' = Call("setOnResume", this, handler, this)
    /\ invoked' = <<>>
    /\ UNCHANGED engineVars

\* A registration for start that keeps a handler already registered.
setOnStart_keepFirst(this, handler) ==
    /\ utterance' = [utterance EXCEPT ![this].onstart =
                         IF utterance[this].onstart = NULL THEN handler ELSE @]
    /\ last' = Call("setOnStart", this, handler, this)
    /\ invoked' = <<>>
    /\ UNCHANGED engineVars

setOnStart(this, handler) ==
    /\ utterance' = [utterance EXCEPT ![this].onstart = handler]
    /\ last' = Call("setOnStart", this, handler, this)
    /\ invoked' = <<>>
    /\ UNCHANGED engineVars

\* setOnVoicesChanged: speechSynthesis.addEventListener("voiceschanged", <a new closure>).
\* Every call creates a new function object, so the engine never takes it for a duplicate.
\* A registration that takes the place of the earlier ones (an onvoiceschanged
\* attribute assignment).
setOnVoicesChanged_replace(this, callback) ==
    /\ Len(listeners) < MaxListeners
    /\ listeners' = <<[self |-> this, callback |-> callback]>>
    /\ last' = Call("setOnVoicesChanged", this, callback, this)
    /\ invoked' = <<>>
    /\ UNCHANGED <<utterance, voices, queue, started, paused, suspended, halted>>

setOnVoicesChanged(this, callback) ==
    /\ Len(listeners) < MaxListeners
    /\ listeners' = Append(listeners, [self |-> this, callback |-> callback])
    /\ last' = Call("setOnVoicesChanged", this, callback, this)
    /\ invoked' = <<>>
    /\ UNCHANGED <<utterance, voices, queue, started, paused, suspended, halted>>

\* A match at the start of the tag only (String.prototype.startsWith).
Includes_startsWith(str, searchString) ==
    /\ Len(searchString) <= Len(str)
    /\ SubSeq(str, 1, Len(searchString)) = searchString

\* String.prototype.includes: searchString occurs in str at some position.
Includes(str, searchString) ==
    \E k \in 0 .. (Len(str) - Len(searchString)) :
        SubSeq(str, k + 1, k + Len(searchString)) = searchString

\* The optional argument is the list of the arguments passed: <<>> or <<filter>>.
\* !optionalCountryCodeFilter: undefined and the empty string are falsy.
Falsy(args) == Len(args) = 0 \/ args[1] = <<>>

\* The value getVoices returns over the catalog the engine reports.
GetVoices(catalog, args) ==
    LET Matches(voice) == Includes(voice.lang, args[1])
    IN  IF Falsy(args) THEN catalog ELSE SelectSeq(catalog, Matches)

getVoices(this, args) ==
    /\ last' = Call("getVoices", this, args, GetVoices(voices, args))
    /\ invoked' = <<>>
    /\ UNCHANGED <<utterance, engineVars>>

\* A speak that submits a copy of the utterance, made at the time of the call.
speak_snapshot(this) ==
    /\ Len(queue) < MaxQueue
    /\ utterance' = [f \in DOMAIN utterance \cup {"copy"} |->
                         IF f = "copy" THEN [utterance[this] EXCEPT !.id = "copy"] ELSE utterance[f]]
    /\ queue' = Append(queue, "copy")
    /\ last' = Call("speak", this, UNDEFINED, UNDEFINED)
    /\ invoked' = <<>>
    /\ UNCHANGED <<voices, listeners, started, paused, suspended, halted>>

\* A speak that submits the utterance twice.
speak_twice(this) ==
    /\ Len(queue) < MaxQueue
    /\ queue' = queue \o <<utterance[this].id, utterance[this].id>>
    /\ last' = Call("speak", this, UNDEFINED, UNDEFINED)
    /\ invoked' = <<>>
    /\ UNCHANGED <<utterance, voices, listeners, started, paused, suspended, halted>>

\* speak: speechSynthesis.speak(this.utterance). The engine is handed the utterance
\* object itself: the queue holds its identity, not its contents.
speak(this) ==
    /\ Len(queue) < MaxQueue
    /\ queue' = Append(queue, utterance[this].id)
    /\ last' = Call("speak", this, UNDEFINED, UNDEFINED)
    /\ invoked' = <<>>
    /\ UNCHANGED <<utterance, voices, listeners, started, paused, suspended, halted>>

Range(seq) == {seq[n] : n \in 1 .. Len(seq)}

\* A cancel scoped to the caller's utterance: only its submissions leave the queue.
cancelSpeech_own(this) ==
    /\ queue' = SelectSeq(queue, LAMBDA u : u # utterance[this].id)
    /\ started' = (started /\ Head(queue) # utterance[this].id)
    /\ suspended' = (suspended /\ Head(queue) # utterance[this].id)
    /\ halted' = halted \cup (Range(queue) \cap {utterance[this].id})
    /\ last' = Call("cancelSpeech", this, UNDEFINED, UNDEFINED)
    /\ invoked' = <<>>
    /\ UNCHANGED <<utterance, voices, listeners, paused>>

\* cancelSpeech: speechSynthesis.cancel() empties the engine's queue, whoever submitted.
cancelSpeech(this) ==
    /\ queue' = <<>>
    /\ started' = FALSE
    /\ suspended' = FALSE
    /\ halted' = halted \cup Range(queue)
    /\ last' = Call("cancelSpeech", this, UNDEFINED, UNDEFINED)
    /\ invoked' = <<>>
    /\ UNCHANGED <<utterance, voices, listeners, paused>>

\* pauseSpeech: speechSynthesis.pause() puts the engine in the paused state.
pauseSpeech(this) ==
    /\ paused' = TRUE
    /\ last' = Call("pauseSpeech", this, UNDEFINED, UNDEFINED)
    /\ invoked' = <<>>
    /\ UNCHANGED <<utterance, voices, listeners, queue, started, suspended, halted>>

\* resumeSpeech: speechSynthesis.resume() takes the engine out of the paused state.
resumeSpeech(this) ==
    /\ paused' = FALSE
    /\ last' = Call("resumeSpeech", this, UNDEFINED, UNDEFINED)
    /\ invoked' = <<>>
    /\ UNCHANGED <<utterance, voices, listeners, queue, started, suspended, halted>>

\* The engine's status attributes.
EnginePaused == paused

EngineSpeaking == started

EnginePending == Len(queue) > (IF started THEN 1 ELSE 0)

\* A status read answering from another attribute of the engine.
isPaused_pending(this) ==
    /\ last' = Call("isPaused", this, UNDEFINED, EnginePending)
    /\ invoked' = <<>>
    /\ UNCHANGED <<utterance, engineVars>>

isPaused(this) ==
    /\ last' = Call("isPaused", this, UNDEFINED, EnginePaused)
    /\ invoked' = <<>>
    /\ UNCHANGED <<utterance, engineVars>>

isSpeaking(this) ==
    /\ last' = Call("isSpeaking", this, UNDEFINED, EngineSpeaking)
    /\ invoked' = <<>>
    /\ UNCHANGED <<utterance, engineVars>>

isPending(this) ==
    /\ last' = Call("isPending", this, UNDEFINED, EnginePending)
    /\ invoked' = <<>>
    /\ UNCHANGED <<utterance, engineVars>>

----------------------------------------------------------------------------
(* The engine: window.speechSynthesis and the events it raises *)

\* The utterance object with identity u, as it is now.
UtteranceObject(u) == utterance[CHOOSE f \in Facades : utterance[f].id = u]

\* An event of the utterance object u reaches the handler its on<kind> attribute holds
\* when the event is raised, if any.
Dispatch(u, kind) ==
    IF UtteranceObject(u)[kind] = NULL
    THEN <<>>
    ELSE <<[callback |-> UtteranceObject(u)[kind], arg |-> [type |-> kind, target |-> u]]>>

\* A listener that forwards the catalog as it was before the change.
VoicesChangedListener_stale(listener, catalog) ==
    [callback |-> listener.callback, arg |-> GetVoices(voices, <<>>)]

\* The closure setOnVoicesChanged registered: callback(this.getVoices()).
VoicesChangedListener(listener, catalog) ==
    [callback |-> listener.callback, arg |-> GetVoices(catalog, <<>>)]

EngineStart ==
    /\ queue # <<>> /\ ~started /\ ~paused
    /\ started' = TRUE
    /\ invoked' = Dispatch(Head(queue), "onstart")
    /\ last' = Call("start", Head(queue), UNDEFINED, UNDEFINED)
    /\ UNCHANGED <<utterance, voices, listeners, queue, paused, suspended, halted>>

EngineBoundary ==
    /\ started /\ ~suspended
    /\ invoked' = Dispatch(Head(queue), "onboundary")
    /\ last' = Call("boundary", Head(queue), UNDEFINED, UNDEFINED)
    /\ UNCHANGED <<utterance, engineVars>>

EngineMark ==
    /\ started /\ ~suspended
    /\ invoked' = Dispatch(Head(queue), "onmark")
    /\ last' = Call("mark", Head(queue), UNDEFINED, UNDEFINED)
    /\ UNCHANGED <<utterance, engineVars>>

EnginePause ==
    /\ started /\ paused /\ ~suspended
    /\ suspended' = TRUE
    /\ invoked' = Dispatch(Head(queue), "onpause")
    /\ last' = Call("pause", Head(queue), UNDEFINED, UNDEFINED)
    /\ UNCHANGED <<utterance, voices, listeners, queue, started, paused, halted>>

EngineResume ==
    /\ started /\ ~paused /\ suspended
    /\ suspended' = FALSE
    /\ invoked' = Dispatch(Head(queue), "onresume")
    /\ last' = Call("resume", Head(queue), UNDEFINED, UNDEFINED)
    /\ UNCHANGED <<utterance, voices, listeners, queue, started, paused, halted>>

\* The engine finishes the head utterance.
EngineEnd ==
    /\ started /\ ~suspended
    /\ queue' = Tail(queue)
    /\ started' = FALSE
    /\ invoked' = Dispatch(Head(queue), "onend")
    /\ last' = Call("end", Head(queue), UNDEFINED, UNDEFINED)
    /\ UNCHANGED <<utterance, voices, listeners, paused, suspended, halted>>

\* The engine fails on the head utterance, begun or not.
EngineError ==
    /\ queue # <<>>
    /\ queue' = Tail(queue)
    /\ started' = FALSE
    /\ suspended' = FALSE
    /\ invoked' = Dispatch(Head(queue), "onerror")
    /\ last' = Call("error", Head(queue), UNDEFINED, UNDEFINED)
    /\ UNCHANGED <<utterance, voices, listeners, paused, halted>>

\* The final event of an utterance that cancel() removed: end or error, as the engine has it.
EngineHalt(u, kind) ==
    /\ u \in halted
    /\ halted' = halted \ {u}
    /\ invoked' = Dispatch(u, kind)
    /\ last' = Call(IF kind = "onend" THEN "end" ELSE "error", u, UNDEFINED, UNDEFINED)
    /\ UNCHANGED <<utterance, voices, listeners, queue, started, paused, suspended>>

\* The engine's catalog changes and "voiceschanged" fires: every listener runs, in the
\* order it was added, and reads the catalog as it is now.
EngineVoicesChanged(catalog) ==
    /\ catalog # voices
    /\ voices' = catalog
    /\ invoked' = [n \in 1 .. Len(listeners) |-> VoicesChangedListener(listeners[n], catalog)]
    /\ last' = Call("voiceschanged", UNDEFINED, UNDEFINED, UNDEFINED)
    /\ UNCHANGED <<utterance, listeners, queue, started, paused, suspended, halted>>

----------------------------------------------------------------------------
(* Specifications *)

\* The state once the facades F are constructed, the engine reporting `catalog`.
InitWith(F, catalog) ==
    /\ utterance = [f \in F |-> NewUtterance(f)]
    /\ voices = catalog
    /\ listeners = <<>>
    /\ queue = <<>>
    /\ started = FALSE
    /\ paused = FALSE
    /\ suspended = FALSE
    /\ halted = {}
    /\ last = Call("new", UNDEFINED, UNDEFINED, UNDEFINED)
    /\ invoked = <<>>

\* One facade: the configuration surface over every numeric input, with the control,
\* status and voice-query surfaces interleaved.
Init == InitWith({"A"}, <<Voice("alice", EN_US), Voice("chloe", FR_FR)>>)

Next ==
    \/ \E this \in Facades, rate \in Numbers : setVoiceRate(this, rate)
    \/ \E this \in Facades, pitch \in Numbers : setVoicePitch(this, pitch)
    \/ \E this \in Facades, volumeLevel \in Numbers : setVolume(this, volumeLevel)
    \/ \E this \in Facades : setLanguage(this, EN_US)
    \/ \E this \in Facades : setVoiceSpeech(this, Voice("chloe", FR_FR))
    \/ \E this \in Facades : setVoiceText(this, "Hello World!")
    \/ \E this \in Facades : getVoices(this, <<>>)
    \/ \E this \in Facades : speak(this)
    \/ \E this \in Facades : cancelSpeech(this)
    \/ \E this \in Facades : pauseSpeech(this)
    \/ \E this \in Facades : resumeSpeech(this)
    \/ \E this \in Facades : isPaused(this)
    \/ \E this \in Facades : isSpeaking(this)
    \/ \E this \in Facades : isPending(this)

Spec == Init /\ [][Next]_vars

\* Two facades over one engine: submissions, playback control, status reads and the
\* utterance events the engine raises, with handlers registered for end only.
InitEngine == InitWith({"A", "B"}, <<>>)

NextEngine ==
    \/ \E this \in Facades, handler \in Handlers : setOnEnd(this, handler)
    \/ \E this \in Facades : setVoiceText(this, "Hello World!")
    \/ \E this \in Facades : getVoices(this, <<>>)
    \/ \E this \in Facades : speak(this)
    \/ \E this \in Facades : cancelSpeech(this)
    \/ \E this \in Facades : pauseSpeech(this)
    \/ \E this \in Facades : resumeSpeech(this)
    \/ \E this \in Facades : isPaused(this)
    \/ \E this \in Facades : isSpeaking(this)
    \/ \E this \in Facades : isPending(this)
    \/ EngineStart
    \/ EngineBoundary
    \/ EngineMark
    \/ EnginePause
    \/ EngineResume
    \/ EngineEnd
    \/ EngineError
    \/ \E u \in halted, kind \in {"onend", "onerror"} : EngineHalt(u, kind)

SpecEngine == InitEngine /\ [][NextEngine]_vars

\* Every chainable operation, each with one argument: the utterance's setters and
\* registrations on facade A, the rate setter and the voiceschanged registration on a
\* second facade B beside it.
InitChain == InitWith({"A", "B"}, <<>>)

NextChain ==
    \/ \E this \in Facades : setVoiceRate(this, 99)
    \/ setVoicePitch("A", -5)
    \/ setVolume("A", 0)
    \/ setLanguage("A", EN_US)
    \/ setVoiceSpeech("A", Voice("alice", EN_US))
    \/ setVoiceText("A", "Hello World!")
    \/ setOnBoundary("A", "h1")
    \/ setOnEnd("A", "h1")
    \/ setOnError("A", "h1")
    \/ setOnMark("A", "h1")
    \/ setOnPause("A", "h1")
    \/ setOnResume("A", "h1")
    \/ setOnStart("A", "h1")
    \/ setOnVoicesChanged("B", "h2")

SpecChain == InitChain /\ [][NextChain]_vars

\* The most voices a catalog of the model holds.
MaxCatalog == 3

\* The catalogs the engine may report: the sequences of up to MaxCatalog distinct voices.
Catalogs ==
    {c \in UNION {[1 .. n -> AllVoices] : n \in 0 .. MaxCatalog} :
        \A i, j \in 1 .. Len(c) : i # j => c[i] # c[j]}

\* The filters the caller passes to getVoices: none, the empty string and some tags.
FilterArgs ==
    {<<>>, <<<<>>>>, <<<<"e", "n">>>>, <<<<"E", "N">>>>, <<<<"-">>>>, <<<<"n", "-", "G">>>>, <<FR_FR>>}

\* The voice surface: the engine's catalog changes while two facades query it and
\* register for the change.
InitVoices == InitWith({"A", "B"}, <<>>)

NextVoices ==
    \/ \E this \in Facades, args \in FilterArgs : getVoices(this, args)
    \/ \E this \in Facades, callback \in Handlers : setOnVoicesChanged(this, callback)
    \/ \E catalog \in Catalogs : EngineVoicesChanged(catalog)

SpecVoices == InitVoices /\ [][NextVoices]_vars

\* One facade with every utterance handler registration, and the engine driving its
\* utterance through the events.
InitHandlers == InitWith({"A"}, <<>>)

NextHandlers ==
    \/ \E this \in Facades, handler \in Handlers : setOnBoundary(this, handler)
    \/ \E this \in Facades, handler \in Handlers : setOnEnd(this, handler)
    \/ \E this \in Facades, handler \in Handlers : setOnError(this, handler)
    \/ \E this \in Facades, handler \in Handlers : setOnMark(this, handler)
    \/ \E this \in Facades, handler \in Handlers : setOnPause(this, handler)
    \/ \E this \in Facades, handler \in Handlers : setOnResume(this, handler)
    \/ \E this \in Facades, handler \in Handlers : setOnStart(this, handler)
    \/ \E this \in Facades : speak(this)
    \/ \E this \in Facades : pauseSpeech(this)
    \/ \E this \in Facades : resumeSpeech(this)
    \/ EngineStart
    \/ EngineBoundary
    \/ EngineMark
    \/ EnginePause
    \/ EngineResume
    \/ EngineEnd
    \/ EngineError

SpecHandlers == InitHandlers /\ [][NextHandlers]_vars

\* Two facades whose utterances fail: error handlers are registered and replaced while
\* the engine starts, fails and cancels the submissions.
InitError == InitWith({"A", "B"}, <<>>)

NextError ==
    \/ \E this \in Facades, handler \in Handlers : setOnError(this, handler)
    \/ \E this \in Facades : setVoiceText(this, "Hello World!")
    \/ \E this \in Facades : speak(this)
    \/ \E this \in Facades : cancelSpeech(this)
    \/ EngineStart
    \/ EngineBoundary
    \/ EngineError
    \/ \E u \in halted : EngineHalt(u, "onerror")

SpecError == InitError /\ [][NextError]_vars

\* One facade subscribing to the catalog's changes while it is configured, speaks and
\* is controlled, the engine's catalog changing back and forth.
InitSubscription == InitWith({"A"}, <<>>)

NextSubscription ==
    \/ \E this \in Facades, callback \in Handlers : setOnVoicesChanged(this, callback)
    \/ \E this \in Facades : setVoiceRate(this, 2)
    \/ \E this \in Facades : setVoiceText(this, "Hello World!")
    \/ \E this \in Facades : setOnEnd(this, "h1")
    \/ \E this \in Facades : setOnStart(this, "h1")
    \/ \E this \in Facades : speak(this)
    \/ \E this \in Facades : cancelSpeech(this)
    \/ \E this \in Facades : pauseSpeech(this)
    \/ \E this \in Facades : resumeSpeech(this)
    \/ \E catalog \in {<<>>, <<Voice("alice", EN_US)>>} : EngineVoicesChanged(catalog)

SpecSubscription == InitSubscription /\ [][NextSubscription]_vars

\* Two facades configured side by side: every setter and registration on A, and B
\* given a language and an end handler of its own.
InitTwo == InitWith({"A", "B"}, <<>>)

NextTwo ==
    \/ setVoiceRate("A", 2)
    \/ setVoicePitch("A", 0)
    \/ setVolume("A", 0)
    \/ \E this \in Facades : setLanguage(this, IF this = "A" THEN EN_US ELSE FR_FR)
    \/ setVoiceSpeech("A", Voice("alice", EN_US))
    \/ setVoiceText("A", "Hello World!")
    \/ setOnBoundary("A", "h1")
    \/ \E this \in Facades : setOnEnd(this, IF this = "A" THEN "h1" ELSE "h2")
    \/ setOnError("A", "h1")
    \/ setOnMark("A", "h1")
    \/ setOnPause("A", "h1")
    \/ setOnResume("A", "h1")
    \/ setOnStart("A", "h1")

SpecTwo == InitTwo /\ [][NextTwo]_vars

\* One facade reconfigured, with two values for each field, while it speaks, is
\* controlled and is read.
InitFrame == InitWith({"A"}, <<Voice("alice", EN_US), Voice("chloe", FR_FR)>>)

NextFrame ==
    \/ \E this \in Facades, rate \in {2, 99} : setVoiceRate(this, rate)
    \/ \E this \in Facades : setVoicePitch(this, 2)
    \/ \E this \in Facades : setVolume(this, 0)
    \/ \E this \in Facades, languageCode \in {EN_US, FR_UPPER} : setLanguage(this, languageCode)
    \/ \E this \in Facades, voiceObject \in {Voice("alice", EN_US), Voice("chloe", FR_FR)} :
           setVoiceSpeech(this, voiceObject)
    \/ \E this \in Facades, utteranceText \in {"Hello World!", " hello "} :
           setVoiceText(this, utteranceText)
    \/ \E this \in Facades : setOnEnd(this, "h1")
    \/ \E this \in Facades : getVoices(this, <<>>)
    \/ \E this \in Facades : speak(this)
    \/ \E this \in Facades : cancelSpeech(this)
    \/ \E this \in Facades : pauseSpeech(this)
    \/ \E this \in Facades : resumeSpeech(this)
    \/ \E this \in Facades : isPaused(this)
    \/ \E this \in Facades : isSpeaking(this)
    \/ \E this \in Facades : isPending(this)
    \/ EngineStart

SpecFrame == InitFrame /\ [][NextFrame]_vars

\* A caller that registers h1 for start and end before it speaks, and replaces them
\* with h2, and sets the text, only while a submission of its utterance is in the
\* engine's queue.
InitLive == InitWith({"A"}, <<>>)

NextLive ==
    \/ \E this \in Facades : utterance[this].id \notin Range(queue) /\ setOnStart(this, "h1")
    \/ \E this \in Facades : utterance[this].id \notin Range(queue) /\ setOnEnd(this, "h1")
    \/ \E this \in Facades :
           /\ utterance[this].onstart = "h1" /\ utterance[this].onend = "h1"
           /\ speak(this)
    \/ \E this \in Facades : utterance[this].id \in Range(queue) /\ setOnStart(this, "h2")
    \/ \E this \in Facades : utterance[this].id \in Range(queue) /\ setOnEnd(this, "h2")
    \/ \E this \in Facades, utteranceText \in {"Hello World!", "Bye"} :
           utterance[this].id \in Range(queue) /\ setVoiceText(this, utteranceText)
    \/ \E this \in Facades : pauseSpeech(this)
    \/ \E this \in Facades : resumeSpeech(this)
    \/ EngineStart
    \/ EnginePause
    \/ EngineResume
    \/ EngineEnd

SpecLive == InitLive /\ [][NextLive]_vars

\* The numbers clamp is applied to: bounds in either order, values below, between and
\* above them.
ClampInputs == -MaxNum .. MaxNum

\* clamp on its own, over every triple of ClampInputs.
InitClamp == InitWith({"A"}, <<>>)

NextClamp ==
    \E this \in Facades, min \in ClampInputs, value \in ClampInputs, max \in ClampInputs :
        callClamp(this, min, value, max)

SpecClamp == InitClamp /\ [][NextClamp]_vars

----------------------------------------------------------------------------
(* Claims: the configuration surface *)

\* C1: in every reachable state the stored rate is in [0, 10], the stored pitch in
\* [0, 3] and the stored volume in [0, 1], whatever numbers the setters were given.
C1_StoredValuesInRange ==
    \A f \in Facades :
        /\ 0 <= utterance[f].rate /\ utterance[f].rate <= 10
        /\ 0 <= utterance[f].pitch /\ utterance[f].pitch <= 3
        /\ 0 <= utterance[f].volume /\ utterance[f].volume <= 1

\* Each of the three setters was last given a value outside its range, on either side.
C1_Witness ==
    /\ last.op = "setVolume" /\ last.arg = 99
    /\ utterance["A"].rate = 10
    /\ utterance["A"].pitch = 0
    /\ utterance["A"].volume = 1
    /\ queue # <<>>

\* What the claim says a setter with upper bound `upper` stores for v.
C2_Expected(v, upper) ==
    CASE v < 0 -> 0
      [] v > upper -> upper
      [] OTHER -> v

\* C2: setVoiceRate(v) stores v when 0 <= v <= 10, 0 when v < 0 and 10 when v > 10;
\* setVoicePitch likewise with upper bound 3 and setVolume with upper bound 1.
C2_SetterStoresClamped ==
    /\ last.op = "setVoiceRate" => utterance[last.self].rate = C2_Expected(last.arg, 10)
    /\ last.op = "setVoicePitch" => utterance[last.self].pitch = C2_Expected(last.arg, 3)
    /\ last.op = "setVolume" => utterance[last.self].volume = C2_Expected(last.arg, 1)

\* The spec's three examples in one run: 99 was stored as 10 after -5 was stored as
\* pitch 0 and 4 was cut to volume 1.
C2_Witness ==
    /\ last.op = "setVoiceRate" /\ last.arg = 99
    /\ utterance["A"].rate = 10
    /\ utterance["A"].pitch = 0
    /\ utterance["A"].volume = 1

----------------------------------------------------------------------------
(* Claims: submission, status and the end event *)

\* The operations the claim names as never submitting: setters, registrations,
\* status reads and getVoices.
C8_QuietOps ==
    {"setVoiceRate", "setVoicePitch", "setVolume", "setLanguage", "setVoiceSpeech",
     "setVoiceText", "setOnBoundary", "setOnEnd", "setOnError", "setOnMark", "setOnPause",
     "setOnResume", "setOnStart", "setOnVoicesChanged", "getVoices", "isPaused",
     "isSpeaking", "isPending"}

\* C8: a speak() call appends exactly one submission to the engine's queue, and it is
\* the caller's own utterance with its configuration as it stands; a setter, a
\* registration, a status read or getVoices leaves the engine's queue as it was.
C8_SpeakSubmitsOnce ==
    [][ /\ last'.op = "speak" =>
              /\ queue' = Append(queue, last'.self)
              /\ utterance' = utterance
        /\ last'.op \in C8_QuietOps => queue' = queue
      ]_vars

\* B spoke while A's submission was still queued, both with a configured text.
C8_Witness ==
    /\ last.op = "speak" /\ last.self = "B"
    /\ queue = <<"A", "B">>
    /\ utterance["B"].text = "Hello World!"

\* C9: the value a status read returns is the engine's flag at the moment of the read.
C9_StatusReadsLive ==
    /\ last.op = "isPaused" => last.ret = paused
    /\ last.op = "isSpeaking" => last.ret = started
    /\ last.op = "isPending" => last.ret = (Len(queue) > (IF started THEN 1 ELSE 0))

\* isPaused read TRUE (it is FALSE at construction) while an utterance is being
\* spoken and another one waits: the flags changed before the read.
C9_Witness ==
    /\ last.op = "isPaused" /\ last.ret = TRUE
    /\ started /\ Len(queue) = 2

\* What the engine's end event on utterance u must invoke: the handler registered
\* for end, once, or nothing when there is none.
C10_EndCalls(u) ==
    IF utterance[u].onend = NULL
    THEN <<>>
    ELSE <<[callback |-> utterance[u].onend, arg |-> [type |-> "onend", target |-> u]]>>

\* C10: a setOnEnd call leaves its handler in the end attribute, where it stays until
\* the next setOnEnd call on that facade; every end event the engine raises on an
\* utterance invokes that handler exactly once; an event of a kind with no handler
\* registered invokes nothing, and so does every step that is not an event.
C10_EndHandlerOncePerCompletion ==
    [][ /\ last'.op = "setOnEnd" => utterance'[last'.self].onend = last'.arg
        /\ \A f \in Facades :
              utterance'[f].onend # utterance[f].onend =>
                  last'.op = "setOnEnd" /\ last'.self = f
        /\ \A f \in Facades, k \in Kinds \ {"onend"} : utterance'[f][k] = NULL
        /\ last'.op = "end" => invoked' = C10_EndCalls(last'.self)
        /\ last'.op # "end" => invoked' = <<>>
      ]_vars

\* The engine completed B's utterance and B's end handler, registered twice (h2 is
\* the later one), ran once.
C10_Witness ==
    /\ last.op = "end" /\ last.self = "B"
    /\ utterance["B"].onend = "h2"
    /\ utterance["A"].onend = "h1"
    /\ invoked = <<[callback |-> "h2", arg |-> [type |-> "onend", target |-> "B"]]>>

----------------------------------------------------------------------------
(* Claims: chaining, the voice surface and the registrations *)

C3_ChainOps ==
    {"setVoiceRate", "setVoicePitch", "setVolume", "setLanguage", "setVoiceSpeech",
     "setVoiceText", "setOnBoundary", "setOnEnd", "setOnError", "setOnMark", "setOnPause",
     "setOnResume", "setOnStart", "setOnVoicesChanged"}

\* C3: every configuration setter and every registration returns the instance it was
\* called on.
C3_SettersReturnThis ==
    last.op \in C3_ChainOps => last.ret = last.self /\ last.ret \in Facades

\* The end of a chain on A that went through the setters and the registrations,
\* facade B having been configured too.
C3_Witness ==
    /\ last.op = "setOnStart" /\ last.ret = "A"
    /\ utterance["A"].text = "Hello World!"
    /\ utterance["A"].pitch = 0
    /\ utterance["A"].onend = "h1"
    /\ utterance["B"].rate = 10
    /\ Len(listeners) = 2

\* f occurs in s: s is some prefix, then f, then some suffix.
C4_Contains(s, f) ==
    \E i \in 0 .. Len(s), j \in 0 .. Len(s) : i <= j /\ SubSeq(s, i + 1, j) = f

RECURSIVE C4_Subset(_, _)
\* The voices of the catalog whose language tag contains f, in the catalog's order.
C4_Subset(catalog, f) ==
    IF catalog = <<>>
    THEN <<>>
    ELSE (IF C4_Contains(Head(catalog).lang, f) THEN <<Head(catalog)>> ELSE <<>>)
             \o C4_Subset(Tail(catalog), f)

\* C4: getVoices() returns the engine's current catalog, and getVoices(f) exactly the
\* voices of it whose language tag contains f, case-sensitively, in catalog order.
C4_GetVoicesFilters ==
    last.op = "getVoices" =>
        IF Len(last.arg) = 0
        THEN last.ret = voices
        ELSE last.ret = C4_Subset(voices, last.arg[1])

\* A filter kept some voices of the catalog and dropped others, matching inside the tag.
C4_Witness ==
    /\ last.op = "getVoices" /\ last.arg = <<<<"n", "-", "G">>>>
    /\ Len(voices) = 3
    /\ Len(last.ret) = 1

C5_SetterOf ==
    [onboundary |-> "setOnBoundary", onend |-> "setOnEnd", onerror |-> "setOnError",
     onmark |-> "setOnMark", onpause |-> "setOnPause", onresume |-> "setOnResume",
     onstart |-> "setOnStart"]

C5_EventOf ==
    [onboundary |-> "boundary", onend |-> "end", onerror |-> "error", onmark |-> "mark",
     onpause |-> "pause", onresume |-> "resume", onstart |-> "start"]

\* C5: for each of the seven utterance event kinds, a setOn<Kind> call makes its
\* argument the handler of that kind and leaves the handlers of the other kinds as
\* they were; nothing else changes a handler; and an event of a kind invokes the
\* handler of that kind as it is now, once, and no other callback.
C5_LastRegistrationWins ==
    [][ \A k \in Kinds :
          /\ last'.op = C5_SetterOf[k] =>
                /\ utterance'[last'.self][k] = last'.arg
                /\ \A other \in Kinds \ {k} :
                      utterance'[last'.self][other] = utterance[last'.self][other]
          /\ \A f \in Facades :
                utterance'[f][k] # utterance[f][k] => last'.op = C5_SetterOf[k]
          /\ last'.op = C5_EventOf[k] =>
                invoked' = IF utterance[last'.self][k] = NULL
                           THEN <<>>
                           ELSE <<[callback |-> utterance[last'.self][k],
                                   arg |-> [type |-> k, target |-> last'.self]]>>
      ]_vars

\* The start event ran h2 and nothing else, while other kinds hold h1.
C5_Witness ==
    /\ last.op = "start"
    /\ utterance["A"].onstart = "h2"
    /\ utterance["A"].onend = "h1"
    /\ utterance["A"].onpause = "h1"
    /\ invoked = <<[callback |-> "h2", arg |-> [type |-> "onstart", target |-> "A"]]>>

\* C6: one firing of an event kind, voiceschanged included, invokes at most one
\* caller callback.
C6_AtMostOneCallbackPerFiring == Len(invoked) <= 1

\* C7: a setOnVoicesChanged call adds a listener for its callback, and every firing of
\* voiceschanged invokes, within the firing, the callback of every listener added so
\* far with the catalog as it is after the change.
C7_VoicesChangedForwardsCurrentList ==
    [][ /\ last'.op = "setOnVoicesChanged" =>
              listeners' = Append(listeners, [self |-> last'.self, callback |-> last'.arg])
        /\ last'.op = "voiceschanged" =>
              /\ listeners' = listeners
              /\ Len(invoked') = Len(listeners)
              /\ \A n \in 1 .. Len(listeners) :
                    /\ invoked'[n].callback = listeners[n].callback
                    /\ invoked'[n].arg = voices'
      ]_vars

\* voiceschanged fired with one listener registered, whose callback received the
\* two-voice catalog the engine reports after the change.
C7_Witness ==
    /\ last.op = "voiceschanged"
    /\ Len(listeners) = 1
    /\ Len(voices) = 2
    /\ invoked = <<[callback |-> listeners[1].callback, arg |-> voices]>>

----------------------------------------------------------------------------
(* Claims: failures, engine-wide control, the subscription, identity and frames *)

\* The number of entries of seq equal to x.
C11_Count(seq, x) == Cardinality({n \in 1 .. Len(seq) : seq[n] = x})

\* C11: a setOnError call leaves its handler in the error attribute, which only a
\* setOnError call on that facade changes; every failure the engine raises on an
\* utterance invokes the handler the attribute holds at that time exactly once and
\* nothing else; the failure step puts no submission in the engine's queue and
\* changes no utterance configuration.
C11_ErrorDeliveredOnce ==
    [][ /\ last'.op = "setOnError" => utterance'[last'.self].onerror = last'.arg
        /\ \A f \in Facades :
              utterance'[f].onerror # utterance[f].onerror =>
                  last'.op = "setOnError" /\ last'.self = f
        /\ last'.op = "error" =>
              /\ invoked' = IF utterance[last'.self].onerror = NULL
                            THEN <<>>
                            ELSE <<[callback |-> utterance[last'.self].onerror,
                                    arg |-> [type |-> "onerror", target |-> last'.self]]>>
              /\ utterance' = utterance
              /\ \A f \in Facades : C11_Count(queue', f) <= C11_Count(queue, f)
              /\ Len(queue') + Cardinality(halted') + 1 = Len(queue) + Cardinality(halted)
      ]_vars

\* The engine failed on A's utterance, begun, with B's submission queued behind it: A's
\* handler h2 ran once, and B's submission is all that is left in the queue.
C11_Witness ==
    /\ last.op = "error" /\ last.self = "A"
    /\ utterance["A"].onerror = "h2"
    /\ utterance["B"].onerror = "h1"
    /\ invoked = <<[callback |-> "h2", arg |-> [type |-> "onerror", target |-> "A"]]>>
    /\ queue = <<"B">>
    /\ halted = {}

\* C12: a cancelSpeech call by any facade empties the engine's queue, every submission
\* of every facade included, and leaves each removed utterance to receive its final
\* event; pauseSpeech and resumeSpeech set and clear the engine's paused state; the
\* effect of the three is the same whichever facade calls, and none changes a
\* configuration or the queue's membership other than as said.
C12_ControlIsEngineWide ==
    [][ /\ last'.op = "cancelSpeech" =>
              /\ queue' = <<>>
              /\ ~started'
              /\ halted' = halted \cup Range(queue)
              /\ utterance' = utterance
        /\ last'.op = "pauseSpeech" =>
              /\ paused'
              /\ queue' = queue /\ started' = started /\ halted' = halted
              /\ utterance' = utterance
        /\ last'.op = "resumeSpeech" =>
              /\ ~paused'
              /\ queue' = queue /\ started' = started /\ halted' = halted
              /\ utterance' = utterance
      ]_vars

\* A and B had both submitted; A's cancelSpeech removed both submissions.
C12_Witness ==
    /\ last.op = "cancelSpeech" /\ last.self = "A"
    /\ queue = <<>>
    /\ halted = {"A", "B"}

\* C13: no step removes or reorders a voiceschanged subscription: the subscriptions
\* before a step are the first subscriptions after it, a setOnVoicesChanged call adding
\* one for its callback after them; and every voiceschanged firing invokes the callback
\* of every subscription made so far.
C13_SubscriptionPersists ==
    [][ /\ Len(listeners') >= Len(listeners)
        /\ SubSeq(listeners', 1, Len(listeners)) = listeners
        /\ last'.op = "setOnVoicesChanged" =>
              /\ Len(listeners') = Len(listeners) + 1
              /\ listeners'[Len(listeners')].callback = last'.arg
        /\ last'.op = "voiceschanged" =>
              /\ Len(invoked') = Len(listeners)
              /\ \A n \in 1 .. Len(listeners) : invoked'[n].callback = listeners[n].callback
      ]_vars

\* h1 then h2 subscribed; the facade was configured, spoke and cancelled; the catalog
\* changed and both callbacks ran.
C13_Witness ==
    /\ last.op = "voiceschanged"
    /\ Len(listeners) = 2
    /\ listeners[1].callback = "h1" /\ listeners[2].callback = "h2"
    /\ Len(invoked) = 2
    /\ invoked[1].callback = "h1" /\ invoked[2].callback = "h2"
    /\ utterance["A"].rate = 2 /\ utterance["A"].onend = "h1"
    /\ halted = {"A"} /\ paused

\* C14: at every moment each facade holds the utterance object its constructor made,
\* the objects of distinct facades being distinct; every submission in the engine's
\* queue is one of these objects, and the submission a speak call has just made is the
\* caller's.
C14_OneUtterancePerFacade ==
    /\ \A f \in Facades : utterance[f].id = f
    /\ \A n \in 1 .. Len(queue) : queue[n] \in Facades
    /\ last.op = "speak" => queue[Len(queue)] = last.self

\* A spoke, its text was set, and it spoke again: the same object is queued twice, and
\* it now carries the new text.
C14_Witness ==
    /\ last.op = "speak" /\ last.self = "A"
    /\ queue = <<"A", "A">>
    /\ utterance["A"].text = "Hello World!"
    /\ utterance["A"].onend = "h2"

\* C15: the utterance objects of two distinct facades are distinct objects, and a
\* setter or handler registration called on one facade leaves every field and every
\* handler of every other facade's utterance as it was.
C15_NoSharingBetweenInstances ==
    [][ /\ \A f, g \in Facades : f # g => utterance[f].id # utterance[g].id
        /\ \A f \in Facades \ {last'.self} : utterance'[f] = utterance[f]
      ]_vars

\* A's language was set after B had its own language and end handler: B's are intact.
C15_Witness ==
    /\ last.op = "setLanguage" /\ last.self = "A"
    /\ utterance["A"].lang = EN_US /\ utterance["A"].onend = "h1"
    /\ utterance["B"].lang = FR_FR /\ utterance["B"].onend = "h2"
    /\ utterance["B"].rate = 1 /\ utterance["A"].rate = 2

\* The configuration field each setter names.
C16_FieldOf ==
    [setVoiceRate |-> "rate", setVoicePitch |-> "pitch", setVolume |-> "volume",
     setLanguage |-> "lang", setVoiceSpeech |-> "voice", setVoiceText |-> "text"]

C16_Verbatim == {"setLanguage", "setVoiceSpeech", "setVoiceText"}

C16_ConfigKeepers ==
    {"speak", "cancelSpeech", "pauseSpeech", "resumeSpeech", "getVoices", "isPaused",
     "isSpeaking", "isPending"}

\* C16: a setter call leaves every field of the caller's utterance other than the one
\* it names, every handler, and the engine's catalog, listeners, queue and flags as
\* they were; setLanguage, setVoiceSpeech and setVoiceText leave their argument itself
\* in their field; speak, cancelSpeech, pauseSpeech, resumeSpeech, getVoices and the
\* three status reads leave every utterance as it was.
C16_SettersTouchOneField ==
    [][ /\ \A op \in DOMAIN C16_FieldOf :
              last'.op = op =>
                  /\ \A field \in DOMAIN utterance[last'.self] \ {C16_FieldOf[op]} :
                        utterance'[last'.self][field] = utterance[last'.self][field]
                  /\ op \in C16_Verbatim => utterance'[last'.self][C16_FieldOf[op]] = last'.arg
                  /\ engineVars' = engineVars
        /\ last'.op \in C16_ConfigKeepers => utterance' = utterance
      ]_vars

\* A voice was set on an utterance being rendered by a paused engine: the language set
\* before, which is not the voice's, the other fields and the handler are intact.
C16_Witness ==
    /\ last.op = "setVoiceSpeech" /\ last.arg = Voice("chloe", FR_FR)
    /\ utterance["A"].voice = Voice("chloe", FR_FR)
    /\ utterance["A"].lang = FR_UPPER
    /\ utterance["A"].rate = 10 /\ utterance["A"].volume = 0
    /\ utterance["A"].text = " hello "
    /\ utterance["A"].onend = "h1"
    /\ queue = <<"A">> /\ started /\ paused

\* C17: what speak puts in the engine's queue is the caller's utterance object itself;
\* a text set while the object is queued is the text of every queued submission of
\* it; and a start or end event invokes the handler the object holds when the event is
\* raised and no other callback, so that, for a caller that speaks with h1 registered
\* and registers h2 only afterwards, an event on an object holding h2 invokes h2 once,
\* and never h1.
C17_EngineSeesLiveObject ==
    [][ /\ last'.op = "speak" =>
              /\ queue'[Len(queue')] = utterance'[last'.self].id
              /\ utterance[last'.self].onstart = "h1"
        /\ last'.op = "setVoiceText" =>
              \A n \in 1 .. Len(queue') :
                  queue'[n] = utterance'[last'.self].id =>
                      utterance'[queue'[n]].text = last'.arg
        /\ \A k \in {"onstart", "onend"} :
              last'.op = C5_EventOf[k] =>
                  /\ \A n \in 1 .. Len(invoked') :
                        invoked'[n].callback = utterance[last'.self][k]
                  /\ utterance[last'.self][k] = "h2" =>
                        invoked' = <<[callback |-> "h2",
                                      arg |-> [type |-> k, target |-> last'.self]]>>
      ]_vars

\* The start handler was h1 when A spoke and was replaced by h2 while A's submission
\* waited behind a paused engine: the start event ran h2.
C17_Witness ==
    /\ last.op = "start" /\ last.self = "A"
    /\ utterance["A"].onstart = "h2"
    /\ utterance["A"].onend = "h1"
    /\ utterance["A"].text = "Bye"
    /\ invoked = <<[callback |-> "h2", arg |-> [type |-> "onstart", target |-> "A"]]>>

\* The least and the greatest number of a finite non-empty set.
C18_Minimum(S) == CHOOSE x \in S : \A y \in S : x <= y

C18_Maximum(S) == CHOOSE x \in S : \A y \in S : x >= y

\* C18: the value clamp(min, value, max) returns is the minimum of max and the maximum
\* of value and min; whenever min > max it is max, whatever the value.
C18_ClampIsMinOfMax ==
    last.op = "clamp" =>
        LET min == last.arg[1]
            value == last.arg[2]
            max == last.arg[3]
        IN  /\ last.ret = C18_Minimum({max, C18_Maximum({value, min})})
            /\ min > max => last.ret = max

\* clamp(3, 0, 1): the bounds are crossed and the value is below both; the result is
\* the upper bound 1.
C18_Witness ==
    /\ last.op = "clamp"
    /\ last.arg = <<3, 0, 1>>
    /\ last.ret = 1

====
